---- MODULE Spec2Model ----
(***************************************************************************)
(* biblint: TextFragmentTracker (src/TextFragmentTracker.py).  A text      *)
(* buffer that is rewritten by delete_span / insert_at / replace_span      *)
(* while an offset map translates offsets of the current buffer back to    *)
(* offsets of the original text.                                           *)
(*                                                                         *)
(* Offsets are 0-based as in the Python code; TLA+ sequences are 1-based,  *)
(* so element i of a Python list is s[i + 1] here.                         *)
(***************************************************************************)
EXTENDS Integers, Sequences, FiniteSets, TLC

\* ------------------------------------------------------------------ bounds
MaxLen == 3
MaxIns == 2
MaxText == 4
MaxOps == 2

\* ------------------------------------------------------------------ texts
Alphabet == <<"a", "b", "c", "d", "e", "f", "g", "h">>

CharAt(k) == Alphabet[(k % Len(Alphabet)) + 1]

\* The original text of length n: the character at offset k is CharAt(k).
OriginalText(n) == [k \in 1..n |-> CharAt(k - 1)]

\* The text handed to insert_at / replace_span: n filler characters.
InsertedText(n) == [k \in 1..n |-> "x"]

\* ------------------------------------------------- Python list primitives
\* Python's slice index normalisation: negative indices count from the end,
\* and everything is clamped into 0..n.
ClampIndex(n, i) ==
    IF i < 0 THEN (IF i + n < 0 THEN 0 ELSE i + n)
    ELSE (IF i > n THEN n ELSE i)

\* s[:j]
SliceTo(s, j) == SubSeq(s, 1, ClampIndex(Len(s), j))

\* s[i:]
SliceFrom(s, i) == SubSeq(s, ClampIndex(Len(s), i) + 1, Len(s))

\* Mutant of ListInsert: the element is inserted twice.
ListInsert_Twice(s, i, e) == SubSeq(s, 1, i) \o <<e, e>> \o SubSeq(s, i + 1, Len(s))

\* list.insert(i, e) for 0 <= i <= len(s)
ListInsert(s, i, e) == SubSeq(s, 1, i) \o <<e>> \o SubSeq(s, i + 1, Len(s))

\* Python compares the two-element lists [src, dst] < [x0, x1]
\* lexicographically.
ListLess(e, x) == e.src < x[1] \/ (e.src = x[1] /\ e.dst < x[2])

\* bisect.bisect_left(a, x): the binary search itself, so that its result
\* on a list that is not sorted is the one the library computes.
RECURSIVE BisectLeftFrom(_, _, _, _)
BisectLeftFrom(a, x, lo, hi) ==
    IF lo < hi
    THEN LET mid == (lo + hi) \div 2
         IN  IF ListLess(a[mid + 1], x)
             THEN BisectLeftFrom(a, x, mid + 1, hi)
             ELSE BisectLeftFrom(a, x, lo, mid)
    ELSE lo

bisect_left(a, x) == BisectLeftFrom(a, x, 0, Len(a))

\* ------------------------------------------------------------- offset map
\* A breakpoint is the Python list object [src, dst].  The code mutates
\* these objects in place and list slices share them, so every slot also
\* carries obj, the identity of the list object it refers to: two slots
\* with the same obj are one object.  obj is kept canonical (the first slot
\* that holds the object).
Breakpoint(s, d, o) == [src |-> s, dst |-> d, obj |-> o]

Canon(m) ==
    [p \in 1..Len(m) |->
        [m[p] EXCEPT !.obj =
            CHOOSE q \in 1..Len(m) :
                /\ m[q].obj = m[p].obj
                /\ \A r \in 1..(q - 1) : m[r].obj # m[p].obj]]

\* Mutant of ShiftFrom: the traversal starts one slot too late.
ShiftFrom_LateStart(m, start, delta) ==
    [p \in 1..Len(m) |->
        [m[p] EXCEPT !.src = @ + delta *
            Cardinality({q \in (start + 2)..Len(m) : m[q].obj = m[p].obj})]]

\* for i in range(start, len(m)): m[i][0] += delta
\* An object that sits in k of the visited slots is changed k times, and
\* the change shows in every slot that refers to it.
ShiftFrom(m, start, delta) ==
    [p \in 1..Len(m) |->
        [m[p] EXCEPT !.src = @ + delta *
            Cardinality({q \in (start + 1)..Len(m) : m[q].obj = m[p].obj})]]

\* Mutant of InitialOffsetmap: a 1-based first breakpoint.
InitialOffsetmap_OneBased == <<Breakpoint(1, 0, 1)>>

InitialOffsetmap == <<Breakpoint(0, 0, 1)>>

\* Mutant of translate_offset_index: the search key is [qry_offset, 0].
translate_offset_index_NoPlusOne(m, qry_offset) ==
    LET index == bisect_left(m, <<qry_offset, 0>>) - 1
    IN  IF index = -1 THEN 0 ELSE index

translate_offset_index(m, qry_offset) ==
    LET index == bisect_left(m, <<qry_offset + 1, 0>>) - 1
    IN  IF index = -1 THEN 0 ELSE index

translate_full_offset(m, qry_offset) ==
    LET index == translate_offset_index(m, qry_offset)
        span == m[index + 1]
        distance == span.dst - span.src
    IN  <<index, qry_offset + distance>>

translate_offset(m, qry_offset) == translate_full_offset(m, qry_offset)[2]

\* __iter__ run to its end: one pair per character of the buffer.
Iteration(txt, m) ==
    [i \in 1..Len(txt) |-> <<translate_offset(m, i - 1), txt[i]>>]

\* _assert_offsetmap_integrity: TRUE when no AssertionError is raised.
OffsetmapIntegrity(m) ==
    /\ m[1].src = 0
    /\ \A i \in 1..(Len(m) - 1) : m[i + 1].src > m[i].src

\* Mutant of StartsAt: the breakpoint at index_from is never updated in
\* place, the new one is always inserted behind it.
StartsAt_Never(m, index, span_from) == FALSE

\* Line 90: the breakpoint at index already starts at span_from.
StartsAt(m, index, span_from) == m[index + 1].src = span_from

\* Mutant of DeleteSpanMap: the breakpoints behind the span keep their src.
DeleteSpanMap_NoShift(m, span_from, span_to) ==
    LET index_from == translate_full_offset(m, span_from)[1]
        full_to == translate_full_offset(m, span_to)
        removed == SubSeq(m, 1, index_from + 1) \o SubSeq(m, full_to[1] + 2, Len(m))
        new_element == Breakpoint(span_from, full_to[2], 0)
    IN  Canon(IF StartsAt(removed, index_from, span_from)
              THEN [removed EXCEPT ![index_from + 1] = new_element]
              ELSE ListInsert(removed, index_from + 1, new_element))

\* The offset map after delete_span(span) (lines 71-103).
DeleteSpanMap(m, span_from, span_to) ==
    LET length == span_to - span_from
        index_from == translate_full_offset(m, span_from)[1]
        full_to == translate_full_offset(m, span_to)
        index_to == full_to[1]
        translated_to == full_to[2]
        removed == SubSeq(m, 1, index_from + 1) \o SubSeq(m, index_to + 2, Len(m))
        insert_index == index_from + 1
        new_element == Breakpoint(span_from, translated_to, 0)
        update == StartsAt(removed, index_from, span_from)
        placed == IF update
                  THEN [removed EXCEPT ![index_from + 1] = new_element]
                  ELSE ListInsert(removed, insert_index, new_element)
        start_traversal_index == IF update THEN insert_index ELSE insert_index + 1
    IN  Canon(ShiftFrom(placed, start_traversal_index, 0 - length))

\* Mutant of DeleteSpanText: the span is taken to include its end offset.
DeleteSpanText_Inclusive(s, span_from, span_to) ==
    SliceTo(s, span_from) \o SliceFrom(s, span_to + 1)

\* The buffer after delete_span(span) (line 67); also used for the origins.
DeleteSpanText(s, span_from, span_to) == SliceTo(s, span_from) \o SliceFrom(s, span_to)

\* Mutant of InsertAtMap: the search is made for pos, not pos + length.
InsertAtMap_SearchPos(m, pos, length) ==
    LET index == translate_full_offset(m, pos)[1]
    IN  Canon(ShiftFrom(m, index, length))

\* The offset map after insert_at(pos, text) with len(text) = length > 0
\* (lines 123-125); the text has been spliced already, the map has not.
InsertAtMap(m, pos, length) ==
    LET index == translate_full_offset(m, pos + length)[1]
    IN  Canon(ShiftFrom(m, index, length))

\* The buffer after insert_at(pos, text) (line 121).
InsertAtText(s, pos, t) == SliceTo(s, pos) \o t \o SliceFrom(s, pos)

\* -------------------------------------------------------------- LineMapper
\* src/LineMapper.py.  self._offsets is a list of tuples (offset, lineno),
\* here pairs <<offset, lineno>>.

\* The loop of LineMapper.__init__ (lines 34-37) from offset on.
RECURSIVE ScanLines(_, _, _, _)
ScanLines(txt, offset, lineno, offsets) ==
    IF offset >= Len(txt)
    THEN offsets
    ELSE IF txt[offset + 1] = "\n"
         THEN ScanLines(txt, offset + 1, lineno + 1,
                        Append(offsets, <<offset, lineno + 1>>))
         ELSE ScanLines(txt, offset + 1, lineno, offsets)

\* Mutant of LineMapperOffsets: a line is recorded to start behind its
\* newline character.
LineMapperOffsets_AfterNewline(txt) ==
    LET offs == ScanLines(txt, 0, 1, <<<<0, 1>>>>)
    IN  [i \in 1..Len(offs) |-> IF i = 1 THEN offs[i] ELSE <<offs[i][1] + 1, offs[i][2]>>]

\* self._offsets after LineMapper.__init__(text).
LineMapperOffsets(txt) == ScanLines(txt, 0, 1, <<<<0, 1>>>>)

\* Python's tuple comparison (offset, lineno) < (x0, x1).
TupleLess(e, x) == e[1] < x[1] \/ (e[1] = x[1] /\ e[2] < x[2])

\* bisect.bisect_left on the list of tuples.
RECURSIVE BisectLeftTuples(_, _, _, _)
BisectLeftTuples(a, x, lo, hi) ==
    IF lo < hi
    THEN LET mid == (lo + hi) \div 2
         IN  IF TupleLess(a[mid + 1], x)
             THEN BisectLeftTuples(a, x, mid + 1, hi)
             ELSE BisectLeftTuples(a, x, lo, mid)
    ELSE lo

\* Mutant of ResolveIndex: the search pattern is (offset, 0).
ResolveIndex_NoPlusOne(offsets, offset) ==
    LET index == BisectLeftTuples(offsets, <<offset, 0>>, 0, Len(offsets)) - 1
    IN  IF index < 0 THEN 0 ELSE index

\* Lines 40-43 of resolve: the index of the line start that governs offset.
ResolveIndex(offsets, offset) ==
    LET searchpattern == <<offset + 1, 0>>
        index == BisectLeftTuples(offsets, searchpattern, 0, Len(offsets)) - 1
    IN  IF index < 0 THEN 0 ELSE index

\* Mutant of ResolveLocation: the column is left at 0.
ResolveLocation_NoColumn(entry, offset) == [lineno |-> entry[2], colno |-> 0]

\* Mutant of ResolveLocation: the first line is not treated specially.
ResolveLocation_NoFirstLine(entry, offset) ==
    [lineno |-> entry[2], colno |-> offset - entry[1]]

\* Lines 44-48 of resolve: the location from the entry (baseoffset, lineno).
ResolveLocation(entry, offset) ==
    LET baseoffset == entry[1]
        lineno == entry[2]
        adjusted == IF lineno = 1 THEN offset + 1 ELSE offset
    IN  [lineno |-> lineno, colno |-> adjusted - baseoffset]

\* LineMapper.resolve(offset), run alone.
resolve(offsets, offset) ==
    ResolveLocation(offsets[ResolveIndex(offsets, offset) + 1], offset)

\* Mutant of OffsetsAfterResolve: the first-line adjustment offset += 1 is
\* made to the stored line start instead of the local variable.
OffsetsAfterResolve_InPlace(offsets, lineno) ==
    IF lineno = 1
    THEN [offsets EXCEPT ![1] = <<offsets[1][1] + 1, offsets[1][2]>>]
    ELSE offsets

\* self._offsets after a resolve call that found lineno: resolve assigns
\* only to its local variables.
OffsetsAfterResolve(offsets, lineno) == offsets

\* ------------------------------------------------------------------ state
VARIABLES
    original,        \* the text the tracker was constructed from
    text,            \* self._text
    offsetmap,       \* self._offsetmap
    debug,           \* self._debug
    outcome,         \* how the last call ended: "ok" or "AssertionError"
    origin,          \* history: per buffer character, {k} when it is the
                     \* character at offset k of the original, {} when inserted
    total_deleted,   \* history: sum of to - from over all delete_span calls
    total_inserted,  \* history: sum of len(text) over all insert_at calls
    ndeletes,        \* history: number of delete_span calls made, those made
                     \* by replace_span and replace_regex included
    last,            \* history: the last call and its arguments
    nops,            \* history: number of calls made
    iterated,        \* the pairs the last complete iteration yielded
    found,           \* history: the spans the scan of the last regex call
                     \* found, in scan order
    applied,         \* history: the span edits the last replace_regex call
                     \* made, in the order it made them
    lm_text,         \* LineMapper._text
    lm_offsets,      \* LineMapper._offsets
    readers          \* the resolve calls in progress, one per reader

vars == <<original, text, offsetmap, debug, outcome, origin,
          total_deleted, total_inserted, ndeletes, last, nops,
          iterated, found, applied, lm_text, lm_offsets, readers>>

\* The LineMapper and its readers.
lmvars == <<lm_text, lm_offsets, readers>>

\* The tracker's own fields plus the origins, as one value the method
\* operators below transform.
Tracker == [text |-> text, origin |-> origin, offsetmap |-> offsetmap,
            outcome |-> outcome, deleted |-> total_deleted,
            inserted |-> total_inserted, ndeletes |-> ndeletes]

\* The check at the end of a mutating method (lines 108-110, 127-129): run
\* only when _debug is set, and it raises after the object was changed.
DebugCheck(m) == IF debug /\ ~OffsetmapIntegrity(m) THEN "AssertionError" ELSE "ok"

delete_span(t, span_from, span_to) ==
    LET m == DeleteSpanMap(t.offsetmap, span_from, span_to)
    IN  [text |-> DeleteSpanText(t.text, span_from, span_to),
         origin |-> DeleteSpanText(t.origin, span_from, span_to),
         offsetmap |-> m,
         outcome |-> DebugCheck(m),
         deleted |-> t.deleted + (span_to - span_from),
         inserted |-> t.inserted,
         ndeletes |-> t.ndeletes + 1]

\* Mutant of insert_at: an empty text is rejected as an invalid edit.
insert_at_RejectEmpty(t, pos, txt) ==
    IF Len(txt) = 0
    THEN [t EXCEPT !.outcome = "ValueError"]
    ELSE LET m == InsertAtMap(t.offsetmap, pos, Len(txt))
         IN  [text |-> InsertAtText(t.text, pos, txt),
              origin |-> InsertAtText(t.origin, pos, [k \in 1..Len(txt) |-> {}]),
              offsetmap |-> m,
              outcome |-> DebugCheck(m),
              deleted |-> t.deleted,
              inserted |-> t.inserted + Len(txt),
              ndeletes |-> t.ndeletes]

insert_at(t, pos, txt) ==
    IF Len(txt) = 0
    THEN t
    ELSE LET m == InsertAtMap(t.offsetmap, pos, Len(txt))
         IN  [text |-> InsertAtText(t.text, pos, txt),
              origin |-> InsertAtText(t.origin, pos, [k \in 1..Len(txt) |-> {}]),
              offsetmap |-> m,
              outcome |-> DebugCheck(m),
              deleted |-> t.deleted,
              inserted |-> t.inserted + Len(txt),
              ndeletes |-> t.ndeletes]

\* delete_span then insert_at; an AssertionError raised by delete_span
\* propagates and insert_at is not called.
replace_span(t, span_from, span_to, replacement) ==
    LET d == delete_span(t, span_from, span_to)
    IN  IF d.outcome = "ok" THEN insert_at(d, span_from, replacement) ELSE d

\* ------------------------------------------------------------ replace_regex
\* The regular expressions of the model: a literal string lit, or, with
\* empty set, the alternation of the empty string and lit (r"|lit").
RegexAlphabet == {"a", "b"}

Literals == {<<"a">>, <<"b">>, <<"a", "a">>, <<"a", "b">>}

Patterns == [empty : BOOLEAN, lit : Literals]

MatchesAt(lit, txt, pos) ==
    /\ pos + Len(lit) <= Len(txt)
    /\ SubSeq(txt, pos + 1, pos + Len(lit)) = lit

\* regex.finditer(text): the spans of the non-overlapping matches, scanned
\* left to right.  An empty match is not taken twice at one position
\* (must_advance); the empty alternative comes first.
RECURSIVE FindIterFrom(_, _, _, _, _)
FindIterFrom(pat, txt, pos, must_advance, spans) ==
    IF pos > Len(txt)
    THEN spans
    ELSE IF pat.empty /\ ~must_advance
         THEN FindIterFrom(pat, txt, pos, TRUE, Append(spans, <<pos, pos>>))
         ELSE IF MatchesAt(pat.lit, txt, pos)
              THEN FindIterFrom(pat, txt, pos + Len(pat.lit), FALSE,
                                Append(spans, <<pos, pos + Len(pat.lit)>>))
              ELSE FindIterFrom(pat, txt, pos + 1, FALSE, spans)

FindIter(pat, txt) == FindIterFrom(pat, txt, 0, FALSE, << >>)

\* Mutant of Reversed: the list is walked front to back.
Reversed_Forward(s) == s

\* reversed(replacements)
Reversed(s) == [i \in 1..Len(s) |-> s[Len(s) + 1 - i]]

\* Mutant of ApplyReplacements: the loop ends after its first edit.
ApplyReplacements_FirstOnly(t, spans, replacement, scanned, log) ==
    IF spans = << >> \/ t.outcome # "ok"
    THEN [tracker |-> t, log |-> log, found |-> << >>]
    ELSE [tracker |-> replace_span(t, Head(spans)[1], Head(spans)[2], replacement),
          log |-> <<[from |-> Head(spans)[1], to |-> Head(spans)[2],
                     matched |-> SubSeq(scanned, Head(spans)[1] + 1, Head(spans)[2]),
                     covered |-> SubSeq(t.text, Head(spans)[1] + 1, Head(spans)[2])]>>,
          found |-> << >>]

\* The loop of lines 162-163 over the spans still to be applied; an
\* AssertionError raised by replace_span ends it.  The log keeps, for each
\* edit, its span, the characters matched there when the buffer was
\* scanned, and the characters the span covers when the edit is applied.
RECURSIVE ApplyReplacements(_, _, _, _, _)
ApplyReplacements(t, spans, replacement, scanned, log) ==
    IF spans = << >> \/ t.outcome # "ok"
    THEN [tracker |-> t, log |-> log, found |-> << >>]
    ELSE LET span == Head(spans)
         IN  ApplyReplacements(
                 replace_span(t, span[1], span[2], replacement),
                 Tail(spans), replacement, scanned,
                 Append(log, [from |-> span[1], to |-> span[2],
                              matched |-> SubSeq(scanned, span[1] + 1, span[2]),
                              covered |-> SubSeq(t.text, span[1] + 1, span[2])]))

replace_regex(t, pat, replacement) ==
    [ApplyReplacements(t, Reversed(FindIter(pat, t.text)), replacement,
                       t.text, << >>)
        EXCEPT !.found = FindIter(pat, t.text)]

\* ------------------------------------------------------------- delete_regex
\* s[i:j]
Slice(s, i, j) == SubSeq(s, ClampIndex(Len(s), i) + 1, ClampIndex(Len(s), j))

\* Regular expressions with two capture groups: r"(g1)(g2)", or, with
\* optional set, r"(g1)?(g2)".
GroupPatterns == [g1 : RegexAlphabet, g2 : RegexAlphabet, optional : BOOLEAN]

\* The delete_spans argument: lists of distinct group indices.
GroupLists ==
    {l \in UNION {[1..n -> 0..2] : n \in 1..2} :
        \A i, j \in 1..Len(l) : i # j => l[i] # l[j]}

\* regex.finditer(text) for a pattern with groups: per match the spans of
\* group 0, 1 and 2; a group that took no part has the span (-1, -1).
RECURSIVE FindGroupsFrom(_, _, _, _)
FindGroupsFrom(pat, txt, pos, occurences) ==
    IF pos >= Len(txt)
    THEN occurences
    ELSE IF pos + 2 <= Len(txt) /\ txt[pos + 1] = pat.g1 /\ txt[pos + 2] = pat.g2
         THEN FindGroupsFrom(pat, txt, pos + 2,
                  Append(occurences,
                         <<<<pos, pos + 2>>, <<pos, pos + 1>>, <<pos + 1, pos + 2>>>>))
         ELSE IF pat.optional /\ txt[pos + 1] = pat.g2
              THEN FindGroupsFrom(pat, txt, pos + 1,
                       Append(occurences,
                              <<<<pos, pos + 1>>, <<-1, -1>>, <<pos, pos + 1>>>>))
              ELSE FindGroupsFrom(pat, txt, pos + 1, occurences)

\* Lines 175-177: for every occurence, the span of every listed group, in
\* the order of the list.
RECURSIVE Deletions(_, _)
Deletions(occurences, delete_spans) ==
    IF occurences = << >>
    THEN << >>
    ELSE [i \in 1..Len(delete_spans) |-> Head(occurences)[delete_spans[i] + 1]]
             \o Deletions(Tail(occurences), delete_spans)

\* The loop of lines 178-179; an AssertionError raised by delete_span ends
\* it.  The log is that of ApplyReplacements.
RECURSIVE ApplyDeletions(_, _, _, _)
ApplyDeletions(t, spans, scanned, log) ==
    IF spans = << >> \/ t.outcome # "ok"
    THEN [tracker |-> t, log |-> log, found |-> << >>]
    ELSE LET span == Head(spans)
         IN  ApplyDeletions(
                 delete_span(t, span[1], span[2]), Tail(spans), scanned,
                 Append(log, [from |-> span[1], to |-> span[2],
                              matched |-> Slice(scanned, span[1], span[2]),
                              covered |-> Slice(t.text, span[1], span[2])]))

delete_regex(t, pat, delete_spans) ==
    LET deletions == Deletions(FindGroupsFrom(pat, t.text, 0, << >>), delete_spans)
    IN  [ApplyDeletions(t, Reversed(deletions), t.text, << >>)
            EXCEPT !.found = deletions]

\* ---------------------------------------------------------------- actions
\* The arguments the contracts allow, for a buffer of length n.
InRangeSpan(n, span_from, span_to) ==
    0 <= span_from /\ span_from <= span_to /\ span_to <= n

InRangePos(n, pos) == 0 <= pos /\ pos <= n

Call(op, a, b, n, ok) == [op |-> op, a |-> a, b |-> b, n |-> n, inrange |-> ok]

\* ---- LineMapper readers
NReaders == 2

Readers == 1..NReaders

IdleReader == [pc |-> "idle", offset |-> 0, index |-> 0, entry |-> <<0, 0>>,
               result |-> [lineno |-> 0, colno |-> 0]]

\* A tracker and a LineMapper constructed from one of the given texts
\* (TextFragmentTracker.__init__, lines 35-39; LineMapper.__init__); a
\* caller may switch _debug on.
InitFrom(texts, debugs) ==
    /\ original \in texts
    /\ text = original
    /\ offsetmap = InitialOffsetmap
    /\ debug \in debugs
    /\ outcome = "ok"
    /\ origin = [k \in 1..Len(original) |-> {k - 1}]
    /\ total_deleted = 0
    /\ total_inserted = 0
    /\ ndeletes = 0
    /\ last = Call("init", 0, 0, 0, TRUE)
    /\ nops = 0
    /\ iterated = << >>
    /\ found = << >>
    /\ applied = << >>
    /\ lm_text = original
    /\ lm_offsets = LineMapperOffsets(lm_text)
    /\ readers = [r \in Readers |-> IdleReader]

\* After construction (lines 35-39); a caller may switch _debug on.
InitLen(maxlen) == InitFrom({OriginalText(n) : n \in 0..maxlen}, BOOLEAN)

Init == InitLen(MaxLen)

\* The caller goes on only while no call has raised, and the model stops
\* after maxops calls or when the buffer would outgrow MaxText.
BecomesLogged(t, call, maxops, log) ==
    /\ outcome = "ok"
    /\ nops < maxops
    /\ \E r \in {t} :
          /\ Len(r.text) <= MaxText
          /\ text' = r.text
          /\ origin' = r.origin
          /\ offsetmap' = r.offsetmap
          /\ outcome' = r.outcome
          /\ total_deleted' = r.deleted
          /\ total_inserted' = r.inserted
          /\ ndeletes' = r.ndeletes
    /\ last' = call
    /\ nops' = nops + 1
    /\ applied' = log
    /\ UNCHANGED <<original, debug, iterated, lmvars>>

Becomes(t, call, maxops) ==
    BecomesLogged(t, call, maxops, applied) /\ UNCHANGED found

DeleteSpan(span_from, span_to, maxops) ==
    Becomes(delete_span(Tracker, span_from, span_to),
            Call("delete_span", span_from, span_to, 0,
                 InRangeSpan(Len(text), span_from, span_to)),
            maxops)

InsertAt(pos, n, maxops) ==
    Becomes(insert_at(Tracker, pos, InsertedText(n)),
            Call("insert_at", pos, pos, n, InRangePos(Len(text), pos)),
            maxops)

ReplaceSpan(span_from, span_to, n, maxops) ==
    Becomes(replace_span(Tracker, span_from, span_to, InsertedText(n)),
            Call("replace_span", span_from, span_to, n,
                 InRangeSpan(Len(text), span_from, span_to)),
            maxops)

\* A caller's delete_span(span) followed by insert_at(span[0], s) with s
\* the text that delete_span has just removed.
ReinsertSpan(span_from, span_to, maxops) ==
    Becomes(replace_span(Tracker, span_from, span_to,
                         SubSeq(text, span_from + 1, span_to)),
            Call("reinsert", span_from, span_to, span_to - span_from,
                 InRangeSpan(Len(text), span_from, span_to)),
            maxops)

Offsets == 0..Len(text)

\* One past either end as well.
AnyOffsets == (0 - 1)..(Len(text) + 1)

\* In-range calls of the three editing methods.
Next ==
    \/ \E f \in Offsets, t \in Offsets :
          InRangeSpan(Len(text), f, t) /\ DeleteSpan(f, t, MaxOps)
    \/ \E p \in Offsets, n \in 0..MaxIns : InsertAt(p, n, MaxOps)
    \/ \E f \in Offsets, t \in Offsets, n \in 0..MaxIns :
          InRangeSpan(Len(text), f, t) /\ ReplaceSpan(f, t, n, MaxOps)

Spec == Init /\ [][Next]_vars

\* In-range delete_span calls only, as delete_regex issues them; longer
\* texts and longer sequences of calls than Spec.
InitDelete == InitLen(MaxLen + 2)

NextDelete ==
    \E f \in Offsets, t \in Offsets :
        InRangeSpan(Len(text), f, t) /\ DeleteSpan(f, t, MaxOps + 2)

SpecDelete == InitDelete /\ [][NextDelete]_vars

\* The in-range calls of Spec, and deleting a span and putting it back.
NextReinsert ==
    \/ Next
    \/ \E f \in Offsets, t \in Offsets :
          InRangeSpan(Len(text), f, t) /\ ReinsertSpan(f, t, MaxOps)

SpecReinsert == Init /\ [][NextReinsert]_vars

\* ---- iteration over injected offset maps
\* Offset maps written into _offsetmap directly, as the tests do: up to
\* MaxOps + 1 breakpoints, the first at src 0, src strictly increasing, dst
\* an offset of an original text.
InjectedMaps ==
    UNION {
        {[p \in 1..k |-> Breakpoint(f[p][1], f[p][2], p)] :
            f \in {g \in [1..k -> (0..(MaxText + 1)) \X (0..MaxLen)] :
                      /\ g[1][1] = 0
                      /\ \A p \in 1..(k - 1) : g[p][1] < g[p + 1][1]}}
        : k \in 1..(MaxOps + 1)}

InitInjected ==
    /\ original \in {OriginalText(n) : n \in 0..MaxText}
    /\ text = original
    /\ offsetmap \in InjectedMaps
    /\ debug = FALSE
    /\ outcome = "ok"
    /\ origin = [k \in 1..Len(original) |-> {k - 1}]
    /\ total_deleted = 0
    /\ total_inserted = 0
    /\ ndeletes = 0
    /\ last = Call("init", 0, 0, 0, TRUE)
    /\ nops = 0
    /\ iterated = << >>
    /\ found = << >>
    /\ applied = << >>
    /\ lm_text = original
    /\ lm_offsets = LineMapperOffsets(lm_text)
    /\ readers = [r \in Readers |-> IdleReader]

\* list(tracker): __iter__ (lines 205-207) consumed to its end.
Iterate ==
    /\ outcome = "ok"
    /\ nops < MaxOps
    /\ iterated' = Iteration(text, offsetmap)
    /\ last' = Call("iterate", 0, 0, 0, TRUE)
    /\ nops' = nops + 1
    /\ UNCHANGED <<original, text, offsetmap, debug, outcome, origin,
                   total_deleted, total_inserted, ndeletes, found, applied,
                   lmvars>>

SpecInjected == InitInjected /\ [][Iterate]_vars

\* ---- LineMapper and its readers
LineAlphabet == {"a", "\n"}

\* The text of the self-test (line 53).
SelfTestText == <<"f", "o", "o", "b", "a", "r", "\n", "b", "a", "r", "f", "o", "o">>

LineTexts ==
    UNION {[1..n -> LineAlphabet] : n \in 0..MaxLen} \cup {SelfTestText}

InitLines == InitFrom(LineTexts, {FALSE})

\* A reader calls resolve(o).
ResolveCall(r, o) ==
    /\ readers[r].pc = "idle"
    /\ readers' = [readers EXCEPT ![r] = [IdleReader EXCEPT !.pc = "called", !.offset = o]]
    /\ UNCHANGED <<lm_text, lm_offsets>>

\* Lines 40-43.
ResolveSearch(r) ==
    /\ readers[r].pc = "called"
    /\ readers' = [readers EXCEPT ![r].pc = "searched",
                                  ![r].index = ResolveIndex(lm_offsets, readers[r].offset)]
    /\ UNCHANGED <<lm_text, lm_offsets>>

\* Line 44.
ResolveRead(r) ==
    /\ readers[r].pc = "searched"
    /\ readers' = [readers EXCEPT ![r].pc = "read",
                                  ![r].entry = lm_offsets[readers[r].index + 1]]
    /\ UNCHANGED <<lm_text, lm_offsets>>

\* Lines 45-49.
ResolveReturn(r) ==
    /\ readers[r].pc = "read"
    /\ readers' = [readers EXCEPT ![r].pc = "done",
                                  ![r].result = ResolveLocation(readers[r].entry,
                                                                readers[r].offset)]
    /\ lm_offsets' = OffsetsAfterResolve(lm_offsets, readers[r].entry[2])
    /\ UNCHANGED lm_text

\* The caller drops the result and may call again.
ResolveForget(r) ==
    /\ readers[r].pc = "done"
    /\ readers' = [readers EXCEPT ![r] = IdleReader]
    /\ UNCHANGED <<lm_text, lm_offsets>>

NextLines ==
    /\ \E r \in Readers :
           \/ \E o \in 0..Len(lm_text) : ResolveCall(r, o)
           \/ ResolveSearch(r)
           \/ ResolveRead(r)
           \/ ResolveReturn(r)
           \/ ResolveForget(r)
    /\ UNCHANGED <<original, text, offsetmap, debug, outcome, origin,
                   total_deleted, total_inserted, ndeletes, last, nops,
                   iterated, found, applied>>

SpecLines == InitLines /\ [][NextLines]_vars

\* ---- replace_regex on texts over RegexAlphabet
RegexTexts == UNION {[1..n -> RegexAlphabet] : n \in 0..MaxLen}

\* The replacement handed to replace_regex: a static string of n characters.
Replacement(n) == [k \in 1..n |-> "b"]

InitRegex == InitFrom(RegexTexts, BOOLEAN)

ReplaceRegex(pat, n) ==
    /\ outcome = "ok"
    /\ nops < MaxOps
    /\ \E r \in {replace_regex(Tracker, pat, Replacement(n))} :
           /\ BecomesLogged(r.tracker, Call("replace_regex", 0, 0, n, TRUE),
                            MaxOps, r.log)
           /\ found' = r.found

NextRegex == \E pat \in Patterns, n \in 0..MaxIns : ReplaceRegex(pat, n)

SpecRegex == InitRegex /\ [][NextRegex]_vars

\* ---- delete_regex with lists of capture groups
DeleteRegex(pat, delete_spans) ==
    /\ outcome = "ok"
    /\ nops < MaxOps
    /\ \E r \in {delete_regex(Tracker, pat, delete_spans)} :
           /\ BecomesLogged(r.tracker, Call("delete_regex", 0, 0, 0, TRUE),
                            MaxOps, r.log)
           /\ found' = r.found

NextRegexDelete ==
    \E pat \in GroupPatterns, delete_spans \in GroupLists :
        DeleteRegex(pat, delete_spans)

SpecRegexDelete == InitRegex /\ [][NextRegexDelete]_vars

\* Any arguments, in range or not.
NextAny ==
    \/ \E f \in AnyOffsets, t \in AnyOffsets : DeleteSpan(f, t, MaxOps)
    \/ \E p \in AnyOffsets, n \in 0..MaxIns : InsertAt(p, n, MaxOps)

SpecAny == Init /\ [][NextAny]_vars

\* ----------------------------------------------------------------- claims
\* Current-buffer offsets that hold a character.
CharOffsets == 0..(Len(text) - 1)

\* C1: after any sequence of in-range delete_span, insert_at and
\* replace_span calls, every buffer character that comes from the original
\* text translates back to its own original offset.
C1_OriginalCharsTranslateBack ==
    \A i \in CharOffsets :
        origin[i + 1] # {} => origin[i + 1] = {translate_offset(offsetmap, i)}

\* C2: after delete_span calls only, every character left in the buffer
\* translates to the offset it had in the original text (and is the
\* character the original text holds there).
C2_DeleteOnlyTranslatesBack ==
    \A i \in CharOffsets :
        LET k == translate_offset(offsetmap, i)
        IN  /\ origin[i + 1] = {k}
            /\ k \in 0..(Len(original) - 1)
            /\ original[k + 1] = text[i + 1]

\* C2 witness: several deletions have left three runs of surviving text.
C2_Witness ==
    /\ nops >= 2
    /\ last.op = "delete_span"
    /\ Len(offsetmap) >= 3
    /\ Len(text) >= 3
    /\ translate_offset(offsetmap, Len(text) - 1) > Len(text) - 1

\* C3: on a freshly constructed tracker translate_offset is the identity
\* on 0..len(text).
C3_FreshIdentity ==
    nops = 0 => \A o \in 0..Len(text) : translate_offset(offsetmap, o) = o

\* C3 witness: a fresh tracker over a text of several characters, its last
\* offset translated.
C3_Witness ==
    /\ nops = 0
    /\ Len(text) >= 2
    /\ translate_offset(offsetmap, Len(text)) = Len(original)

\* C4 (I1): the src values of the breakpoint sequence are strictly
\* increasing in every state reached by in-range calls.
C4_SrcStrictlyIncreasing ==
    \A i \in 1..(Len(offsetmap) - 1) : offsetmap[i].src < offsetmap[i + 1].src

\* C5: the first breakpoint has src 0 in every state reached by in-range
\* calls, so the integrity check run after a mutating call never raises.
C5_FirstSrcZero == offsetmap[1].src = 0 /\ outcome = "ok"

C7_SearchGoverns ==
    \A o \in 0..Len(text) :
        LET i == translate_offset_index(offsetmap, o)
        IN  /\ i \in 0..(Len(offsetmap) - 1)
            /\ offsetmap[i + 1].src <= o
            /\ (i = Len(offsetmap) - 1 \/ o < offsetmap[i + 2].src)

\* C8: len(current text) = len(original text) - total deleted + total
\* inserted, after any sequence of in-range calls.
C8_LengthConservation ==
    Len(text) = Len(original) - total_deleted + total_inserted

\* C8 witness: both deletions and insertions have been made.
C8_Witness ==
    /\ nops >= 2
    /\ total_deleted > 0
    /\ total_inserted > 0
    /\ Len(text) # Len(original)

\* C9: replace_span((a, b), r) leaves the translation of every offset
\* o < a as it was, and every offset o >= a + len(r) translates to what
\* b + (o - a - len(r)) translated to before the call.  Stated for the
\* calls made while the offset map still passes the integrity check, so
\* that a violation does not rest on a map that was malformed before.
C9_ReplaceKeepsSurroundings ==
    [][(last'.op = "replace_span" /\ OffsetmapIntegrity(offsetmap)) =>
         LET a == last'.a
             b == last'.b
             n == last'.n
         IN  /\ \A o \in 0..(a - 1) :
                    translate_offset(offsetmap', o) = translate_offset(offsetmap, o)
             /\ \A o \in (a + n)..Len(text') :
                    translate_offset(offsetmap', o)
                        = translate_offset(offsetmap, b + (o - a - n))]_vars

\* C10: an out-of-range delete_span or insert_at ends in an error and
\* leaves the buffer text and the offset map unchanged.
C10_OutOfRangeFails ==
    [][~last'.inrange =>
         /\ outcome' # "ok"
         /\ text' = text
         /\ offsetmap' = offsetmap]_vars

\* C11: insert_at(pos, "") changes neither the buffer text nor the
\* breakpoint sequence and raises no error, in every reachable state.
C11_EmptyInsertNoOp ==
    [][(last'.op = "insert_at" /\ last'.n = 0) =>
         /\ text' = text
         /\ offsetmap' = offsetmap
         /\ outcome' = "ok"]_vars

\* C11 witness: an empty text was inserted into a buffer that earlier
\* calls had already edited.
C11_Witness ==
    /\ last.op = "insert_at"
    /\ last.n = 0
    /\ nops >= 2
    /\ Len(offsetmap) >= 2

\* C12: a zero-length delete_span((p, p)) changes neither the buffer text
\* nor the breakpoint sequence and raises no error.
C12_EmptyDeleteNoOp ==
    [][(last'.op = "delete_span" /\ last'.a = last'.b) =>
         /\ text' = text
         /\ offsetmap' = offsetmap
         /\ outcome' = "ok"]_vars

\* C13: for current offsets a < b that both hold characters of the
\* original text, translate_offset(a) <= translate_offset(b).
C13_MonotonicOverOriginal ==
    \A a \in CharOffsets, b \in CharOffsets :
        (a < b /\ origin[a + 1] # {} /\ origin[b + 1] # {}) =>
            translate_offset(offsetmap, a) <= translate_offset(offsetmap, b)

\* C14: delete_span((a, b)) followed by insert_at(a, s), s being the text
\* just deleted, leaves translate_offset as it was for every offset o < a
\* and every offset o >= b up to len(text).  Stated for the calls made
\* while the offset map still passes the integrity check, so that a
\* violation does not rest on a map that was malformed before.
C14_ReinsertKeepsTranslation ==
    [][(last'.op = "reinsert" /\ OffsetmapIntegrity(offsetmap)) =>
         \A o \in 0..Len(text) :
             (o < last'.a \/ o >= last'.b) =>
                 translate_offset(offsetmap', o) = translate_offset(offsetmap, o)]_vars

\* The breakpoint that governs offset o in a map with strictly increasing
\* src: the one with the greatest src <= o.
Governing(m, o) ==
    CHOOSE k \in 1..Len(m) :
        /\ m[k].src <= o
        /\ \A j \in 1..Len(m) : m[j].src <= o => j <= k

\* C20: over any offset map with strictly increasing src that starts at
\* src 0, iterating yields len(text) pairs in buffer order, the i-th being
\* (i + dst_k - src_k, text[i]) for the governing breakpoint k; iterating
\* changes neither text nor map, and iterating again yields the same.
C20_IterationYields ==
    /\ [](last.op = "iterate" =>
            /\ Len(iterated) = Len(text)
            /\ \A i \in CharOffsets :
                   LET k == Governing(offsetmap, i)
                   IN  iterated[i + 1] =
                           <<i + offsetmap[k].dst - offsetmap[k].src, text[i + 1]>>)
    /\ [][last'.op = "iterate" =>
            /\ text' = text
            /\ offsetmap' = offsetmap
            /\ (last.op = "iterate" => iterated' = iterated)]_vars

\* C20 witness: a second iteration over a text that spans three runs of an
\* injected map.
C20_Witness ==
    /\ last.op = "iterate"
    /\ nops >= 2
    /\ Len(offsetmap) >= 3
    /\ Len(text) > offsetmap[3].src
    /\ offsetmap[2].dst # offsetmap[2].src
    /\ iterated[Len(text)][1] # Len(text) - 1

\* Readers whose resolve call has returned.
Done == {r \in Readers : readers[r].pc = "done"}

Location(l, c) == [lineno |-> l, colno |-> c]

\* Offsets of the newline characters of the mapped text at or before o.
NewlinesUpTo(o) == {p \in 0..o : p < Len(lm_text) /\ lm_text[p + 1] = "\n"}

LastNewline(o) == CHOOSE p \in NewlinesUpTo(o) : \A q \in NewlinesUpTo(o) : q <= p

\* C16: for every offset o of the text, resolve(o) returns lineno = 1 + the
\* number of newlines at positions <= o, and colno = o - (position of the
\* last newline at or before o) when lineno >= 2, colno = o + 1 when
\* lineno = 1; for "foobar\nbarfoo" offsets 0, 5, 6, 7, 10 give (1,1), (1,6),
\* (2,0), (2,1), (2,4).
C16_ResolveFormula ==
    \A r \in Done :
        LET o == readers[r].offset
            lineno == 1 + Cardinality(NewlinesUpTo(o))
        IN  /\ o < Len(lm_text) =>
                readers[r].result =
                    Location(lineno, IF lineno >= 2 THEN o - LastNewline(o) ELSE o + 1)
            /\ lm_text = SelfTestText =>
                /\ o = 0 => readers[r].result = Location(1, 1)
                /\ o = 5 => readers[r].result = Location(1, 6)
                /\ o = 6 => readers[r].result = Location(2, 0)
                /\ o = 7 => readers[r].result = Location(2, 1)
                /\ o = 10 => readers[r].result = Location(2, 4)

\* C16 witness: on the self-test text one reader has resolved the newline at
\* offset 6 and another offset 10.
C16_Witness ==
    /\ lm_text = SelfTestText
    /\ \E r, q \in Done :
           /\ readers[r].offset = 6 /\ readers[r].result = Location(2, 0)
           /\ readers[q].offset = 10 /\ readers[q].result = Location(2, 4)

\* C17: for every text, resolve(0) returns (line 1, column 1).
C17_OffsetZeroIsOneOne ==
    \A r \in Done : readers[r].offset = 0 => readers[r].result = Location(1, 1)

\* C17 as the code has it: resolve(0) returns (line 1, column 1) for every
\* text that does not begin with a newline, the empty text included, and
\* (line 2, column 0) for a text that begins with a newline.
C17_OffsetZeroUnlessNewline ==
    \A r \in Done :
        readers[r].offset = 0 =>
            readers[r].result =
                IF lm_text # << >> /\ lm_text[1] = "\n"
                THEN Location(2, 0)
                ELSE Location(1, 1)

\* C17 witness: resolve(0) has returned on a text that begins with a newline.
C17_Witness ==
    /\ lm_text # << >>
    /\ lm_text[1] = "\n"
    /\ \E r \in Done : readers[r].offset = 0 /\ readers[r].result = Location(2, 0)

\* C17 witness for the other case: resolve(0) has returned on the empty text.
C17_WitnessEmpty ==
    /\ lm_text = << >>
    /\ \E r \in Done : readers[r].offset = 0 /\ readers[r].result = Location(1, 1)

HasNewline == \E p \in 1..Len(lm_text) : lm_text[p] = "\n"

\* Offset of the first newline of a text that has one.
FirstNewline == CHOOSE p \in 0..(Len(lm_text) - 1) :
                    /\ lm_text[p + 1] = "\n"
                    /\ \A q \in 0..(p - 1) : lm_text[q + 1] # "\n"

\* C18: in a text with a newline, the offset behind the first newline
\* resolves to (line 2, column 0).
C18_AfterNewlineIsColumnZero ==
    HasNewline =>
        \A r \in Done :
            readers[r].offset = FirstNewline + 1 => readers[r].result = Location(2, 0)

\* C18 as the code has it: the first newline itself resolves to (line 2,
\* column 0); the offset behind it resolves to (line 2, column 1), or to
\* (line 3, column 0) when the character there is a newline too.
C18_NewlineIsColumnZero ==
    HasNewline =>
        \A r \in Done :
            LET p == FirstNewline
                o == readers[r].offset
            IN  /\ o = p => readers[r].result = Location(2, 0)
                /\ o = p + 1 =>
                       readers[r].result =
                           IF p + 1 < Len(lm_text) /\ lm_text[p + 2] = "\n"
                           THEN Location(3, 0)
                           ELSE Location(2, 1)

\* C18 witness: both the first newline and the offset behind it have been
\* resolved, the latter holding an ordinary character.
C18_Witness ==
    /\ HasNewline
    /\ FirstNewline + 1 < Len(lm_text)
    /\ lm_text[FirstNewline + 2] # "\n"
    /\ \E r, q \in Done :
           /\ readers[r].offset = FirstNewline
           /\ readers[q].offset = FirstNewline + 1
           /\ readers[q].result = Location(2, 1)

\* C19: resolve never changes the recorded line starts, and every resolve
\* call made while other readers are inside resolve returns what the same
\* call returns when made alone.
C19_ReadersUndisturbed ==
    /\ lm_offsets = LineMapperOffsets(lm_text)
    /\ \A r \in Done :
           readers[r].result = resolve(LineMapperOffsets(lm_text), readers[r].offset)

\* C19 witness: a call on the first line has returned while another reader
\* is between its search and its read of the line start.
C19_Witness ==
    \E r, q \in Readers :
        /\ readers[r].pc = "done"
        /\ readers[r].result.lineno = 1
        /\ readers[q].pc = "searched"
        /\ readers[q].index > 0

\* C15: replace_regex applies the span edits of one call in strictly
\* decreasing order of starting offset, and each span covers, when it is
\* applied, exactly the characters that were matched when the buffer was
\* scanned.
C15_StrictlyDecreasingStarts ==
    last.op = "replace_regex" =>
        /\ \A i, j \in 1..Len(applied) : i < j => applied[i].from > applied[j].from
        /\ \A i \in 1..Len(applied) : applied[i].covered = applied[i].matched

\* C15 as the code has it: the edits are applied in reverse scan order, so
\* starting offsets never increase and every edit ends at or before the
\* start of the edits applied before it; two edits share a starting offset
\* only when the later applied one is an empty match.  Each span covers,
\* when it is applied, exactly the characters that were matched.
C15_ReverseScanOrder ==
    last.op = "replace_regex" =>
        /\ \A i, j \in 1..Len(applied) :
               i < j =>
                   /\ applied[i].from >= applied[j].from
                   /\ applied[j].to <= applied[i].from
                   /\ (applied[i].from = applied[j].from =>
                           applied[j].to = applied[j].from)
        /\ \A i \in 1..Len(applied) : applied[i].covered = applied[i].matched

\* C15 witness: one call has applied three edits, two of them at the same
\* starting offset, one of these replacing a character.
C15_Witness ==
    /\ last.op = "replace_regex"
    /\ Len(applied) >= 3
    /\ \E i \in 1..(Len(applied) - 1) :
           /\ applied[i].from = applied[i + 1].from
           /\ applied[i].to > applied[i].from
    /\ text # original

\* I1 alone: src strictly increasing, whatever the first src is.
SrcIncreasing(m) == \A i \in 1..(Len(m) - 1) : m[i].src < m[i + 1].src

\* C21: delete_span((from, to)) with from < to on a map satisfying I1
\* leaves exactly one breakpoint with src = from, its dst being what
\* translate_offset(to) was before the call, and no breakpoint whose src
\* was in (from, to] survives: the map holds the breakpoints outside the
\* span and the one at from, nothing more.
C21_DeleteCollapses ==
    [][(last'.op = "delete_span" /\ last'.a < last'.b /\ SrcIncreasing(offsetmap)) =>
         LET from == last'.a
             to == last'.b
             at == {i \in 1..Len(offsetmap') : offsetmap'[i].src = from}
             kept == {i \in 1..Len(offsetmap) :
                         offsetmap[i].src < from \/ offsetmap[i].src > to}
         IN  /\ Cardinality(at) = 1
             /\ \A i \in at : offsetmap'[i].dst = translate_offset(offsetmap, to)
             /\ Len(offsetmap') = Cardinality(kept) + 1]_vars

\* C22: delete_span((from, to)) leaves every breakpoint with src < from as
\* it was, every breakpoint whose src was > to keeps its dst and has its
\* src reduced by to - from, and every surviving character translates to
\* the original offset it translated to before the call.
C22_DeleteKeepsOutside ==
    [][last'.op = "delete_span" =>
         LET from == last'.a
             to == last'.b
             before == {<<offsetmap[i].src, offsetmap[i].dst>> :
                           i \in {j \in 1..Len(offsetmap) : offsetmap[j].src < from}}
             behind == {<<offsetmap[i].src - (to - from), offsetmap[i].dst>> :
                           i \in {j \in 1..Len(offsetmap) : offsetmap[j].src > to}}
             now == {<<offsetmap'[i].src, offsetmap'[i].dst>> : i \in 1..Len(offsetmap')}
         IN  /\ before \subseteq now
             /\ behind \subseteq now
             /\ \A o \in 0..(from - 1) :
                    translate_offset(offsetmap', o) = translate_offset(offsetmap, o)
             /\ \A o \in from..(Len(text') - 1) :
                    translate_offset(offsetmap', o)
                        = translate_offset(offsetmap, o + (to - from))]_vars

C24_InsertedExtendsRun ==
    [][(last'.op = "insert_at" /\ last'.n > 0 /\ last'.a > 0
            /\ OffsetmapIntegrity(offsetmap)) =>
         LET pos == last'.a
             g == offsetmap[translate_offset_index(offsetmap, pos - 1) + 1]
         IN  \A o \in pos..(pos + last'.n - 1) :
                 translate_offset(offsetmap', o) = o + (g.dst - g.src)]_vars

\* C27: the number of breakpoints is at most 1 + the number of delete_span
\* calls made so far.
C27_MapBoundedByDeletes == Len(offsetmap) <= 1 + ndeletes

\* C27 witness: insertions and deletions have both been made and the bound
\* is met with equality by a map of three breakpoints.
C27_Witness ==
    /\ ndeletes = 2
    /\ Len(offsetmap) = 3
    /\ total_inserted > 0

\* C28: in every state reached by in-range calls, every character of the
\* buffer translates to a valid offset of the original text:
\* 0 <= translate_offset(i) < len(original).
C28_TranslationInRange ==
    \A i \in CharOffsets :
        /\ 0 <= translate_offset(offsetmap, i)
        /\ translate_offset(offsetmap, i) < Len(original)

\* (lineno, colno) pairs compared lexicographically.
LocationLess(x, y) ==
    x.lineno < y.lineno \/ (x.lineno = y.lineno /\ x.colno < y.colno)

\* C30: for offsets a <= b within the text, resolve(a) <= resolve(b) in the
\* lexicographic order of (lineno, colno), and different offsets never
\* resolve to the same location.
C30_ResolveOrderPreserving ==
    \A r, q \in Done :
        LET a == readers[r].offset
            b == readers[q].offset
        IN  /\ (a < b /\ b < Len(lm_text)) =>
                    LocationLess(readers[r].result, readers[q].result)
            /\ (a = b /\ b < Len(lm_text)) =>
                    readers[r].result = readers[q].result

\* C30 witness: two offsets on either side of a newline have been
\* resolved, the later one to the smaller column of the next line.
C30_Witness ==
    \E r, q \in Done :
        /\ readers[r].offset < readers[q].offset
        /\ readers[q].offset < Len(lm_text)
        /\ readers[r].result.lineno = 1
        /\ readers[q].result.lineno = 2
        /\ readers[q].result.colno < readers[r].result.colno

\* delete_span((c, d)) followed by delete_span((a, b)).
DeleteLaterFirst(a, b, c, d) == delete_span(delete_span(Tracker, c, d), a, b)

\* delete_span((a, b)) followed by delete_span((c - (b - a), d - (b - a))).
DeleteEarlierFirst(a, b, c, d) ==
    delete_span(delete_span(Tracker, a, b), c - (b - a), d - (b - a))

\* C29: in a state reached by deletions only, for spans (a, b) and (c, d)
\* with b <= c, deleting (c, d) and then (a, b) gives the same buffer text
\* and the same translate_offset value at every offset as deleting (a, b)
\* and then (c - (b - a), d - (b - a)).  Evaluated in the states that leave
\* room for the two calls within the MaxOps + 2 calls of NextDelete.
C29_DisjointDeletesCommute ==
    \A a \in Offsets, b \in Offsets, c \in Offsets, d \in Offsets :
        (nops <= MaxOps /\ a <= b /\ b <= c /\ c <= d) =>
            \E u \in {DeleteLaterFirst(a, b, c, d)},
               v \in {DeleteEarlierFirst(a, b, c, d)} :
                /\ u.text = v.text
                /\ \A o \in 0..(Len(u.text) + 1) :
                       translate_offset(u.offsetmap, o) = translate_offset(v.offsetmap, o)

\* C29 witness: after a deletion, two non-empty spans with text between
\* them can be deleted in either order, each order leaving three
\* breakpoints behind.
C29_Witness ==
    /\ nops >= 1
    /\ nops <= MaxOps
    /\ total_deleted > 0
    /\ \E a \in Offsets, b \in Offsets, c \in Offsets, d \in Offsets :
           /\ a < b /\ b < c /\ c < d
           /\ Len(DeleteLaterFirst(a, b, c, d).offsetmap) >= 3
           /\ DeleteLaterFirst(a, b, c, d).text = DeleteEarlierFirst(a, b, c, d).text
           /\ DeleteLaterFirst(a, b, c, d).outcome = "ok"

\* The text with every span of spans (in scan order, not overlapping)
\* replaced by replacement at once; pos is the offset copied up to.
RECURSIVE Substitute(_, _, _, _)
Substitute(txt, spans, replacement, pos) ==
    IF spans = << >>
    THEN SubSeq(txt, pos + 1, Len(txt))
    ELSE SubSeq(txt, pos + 1, Head(spans)[1]) \o replacement
             \o Substitute(txt, Tail(spans), replacement, Head(spans)[2])

\* C26: replace_regex scans the buffer once, before any edit: it applies
\* exactly one replace_span per match of that scan, and the resulting text
\* is the simultaneous substitution of those matches in the pre-call text;
\* the replacement text is not scanned again.
C26_SinglePass ==
    [][last'.op = "replace_regex" =>
         /\ Len(applied') = Len(found')
         /\ \A i \in 1..Len(applied') :
                <<applied'[i].from, applied'[i].to>> = found'[Len(found') + 1 - i]
         /\ \A i \in 1..Len(found') :
                SubSeq(text, found'[i][1] + 1, found'[i][2]) = Reversed(applied')[i].matched
         /\ text' = Substitute(text, found', Replacement(last'.n), 0)]_vars

\* C26 witness: a call has replaced two matches of "b" by "bb", text that
\* matches the pattern again, and has applied exactly those two edits.
C26_Witness ==
    /\ last.op = "replace_regex"
    /\ last.n = 2
    /\ Len(found) = 2
    /\ Len(applied) = 2
    /\ \A i \in 1..2 : applied[i].matched = <<"b">>
    /\ Len(text) = Len(original) + 2

\* C25: delete_regex with a list of capture-group indices applies its
\* deletions in reverse order of starting offset, whatever the order of the
\* list and whether or not every group took part in the match, so that each
\* deletion removes exactly the characters its group matched in the scanned
\* buffer.
C25_GroupDeletionsReverseOrder ==
    last.op = "delete_regex" =>
        /\ \A i, j \in 1..Len(applied) : i < j => applied[i].from >= applied[j].from
        /\ \A i \in 1..Len(applied) : applied[i].covered = applied[i].matched

====
